---- MODULE Spec2Model ----
(***************************************************************************)
(* Model of update_sermons.py: the incremental transcript archiver.        *)
(*                                                                         *)
(* Text is modelled as a sequence of tokens.  A token is either a single   *)
(* character ("a", " ", "&", ...) or a literal chunk copied from the       *)
(* source (the header pieces of format_sermon_entry, the speaker names,    *)
(* the date).  The literal "youtube.com/watch?v=" that the regular         *)
(* expression of get_existing_video_ids looks for is the token WatchLit.   *)
(* Every other chunk is always written next to a chunk that begins or ends *)
(* with a character outside [a-zA-Z0-9_-], so a match of the regular       *)
(* expression can neither start in a chunk nor run through one.            *)
(***************************************************************************)
EXTENDS Integers, Sequences, FiniteSets, TLC

----------------------------------------------------------------------------
(* Generic sequence helpers                                                *)

Range(s) == {s[i] : i \in 1..Len(s)}

RECURSIVE Flatten(_)
Flatten(ss) == IF ss = <<>> THEN <<>> ELSE Head(ss) \o Flatten(Tail(ss))

IsPrefix(p, s) == Len(p) <= Len(s) /\ SubSeq(s, 1, Len(p)) = p

\* pat occurs in s starting at position i
OccursAt(s, pat, i) ==
    /\ i >= 1
    /\ i + Len(pat) - 1 <= Len(s)
    /\ SubSeq(s, i, i + Len(pat) - 1) = pat

\* Python's `pat in s`
Contains(s, pat) == \E i \in 1..(Len(s) + 1) : OccursAt(s, pat, i)

\* sequences over S of length at most n
SeqUpTo(S, n) == UNION {[1..k -> S] : k \in 0..n}

----------------------------------------------------------------------------
(* Characters                                                              *)

Lower == {"a","b","c","d","e","f","g","h","i","j","k","l","m",
          "n","o","p","q","r","s","t","u","v","w","x","y","z"}
Upper == {"A","B","C","D","E","F","G","H","I","J","K","L","M",
          "N","O","P","Q","R","S","T","U","V","W","X","Y","Z"}
Digit == {"0","1","2","3","4","5","6","7","8","9"}

\* the character class [a-zA-Z0-9_-] of the regular expression
IdCharset == Lower \cup Upper \cup Digit \cup {"_", "-"}

\* the {11} of the regular expression
IdLen == 11

\* the literal youtube\.com\/watch\?v= of the regular expression
WatchLit == "youtube.com/watch?v="

\* what str.split() treats as a separator
Whitespace == {" ", "\n", "\t"}

----------------------------------------------------------------------------
(* xml_to_text                                                             *)

\* Entity references as they appear in caption markup.
EntAmp  == "&amp;"
EntApos == "&#39;"
EntQuot == "&quot;"
EntNbsp == "&nbsp;"
MarkupEntities == {EntAmp, EntApos, EntQuot, EntNbsp}

\* The predefined and numeric references the XML parser resolves itself;
\* &nbsp; is not an XML entity and a bare & is not well-formed.
XmlResolvable(t) == t \notin {EntNbsp, "&", "<"}

XmlResolve(t) ==
    CASE t = EntAmp  -> "&"
      [] t = EntApos -> "'"
      [] t = EntQuot -> "\""
      [] OTHER       -> t

\* ET.fromstring on one element's character data
ParseCharData(markup) == [i \in 1..Len(markup) |-> XmlResolve(markup[i])]

\* ET.fromstring succeeds on the document
ParsesOk(doc) ==
    /\ doc.wellFormed
    /\ \A i \in 1..Len(doc.children) :
         \A j \in 1..Len(doc.children[i].markup) :
            XmlResolvable(doc.children[i].markup[j])

\* str.replace(pat, rep): leftmost, non-overlapping
RECURSIVE Replace(_, _, _)
Replace(s, pat, rep) ==
    IF s = <<>> THEN <<>>
    ELSE IF OccursAt(s, pat, 1)
         THEN rep \o Replace(SubSeq(s, Len(pat) + 1, Len(s)), pat, rep)
         ELSE <<Head(s)>> \o Replace(Tail(s), pat, rep)

PatNbsp == <<"&","n","b","s","p",";">>
PatApos == <<"&","#","3","9",";">>
PatQuot == <<"&","q","u","o","t",";">>
PatAmp  == <<"&","a","m","p",";">>

\* A slip in the replacement chain: &amp; resolved first.
DecodeEntitiesAmpFirst(text) ==
    Replace(Replace(Replace(Replace(text, PatAmp, <<"&">>),
                            PatNbsp, <<" ">>), PatApos, <<"'">>),
            PatQuot, <<"\"">>)

\* line 87
DecodeEntities(text) ==
    Replace(Replace(Replace(Replace(text, PatNbsp, <<" ">>),
                            PatApos, <<"'">>), PatQuot, <<"\"">>),
            PatAmp, <<"&">>)

\* str.split(): the maximal runs of non-whitespace
RECURSIVE SplitWords(_, _)
SplitWords(s, cur) ==
    IF s = <<>> THEN (IF cur = <<>> THEN <<>> ELSE <<cur>>)
    ELSE IF Head(s) \in Whitespace
         THEN (IF cur = <<>> THEN <<>> ELSE <<cur>>) \o SplitWords(Tail(s), <<>>)
         ELSE SplitWords(Tail(s), Append(cur, Head(s)))

\* " ".join(parts)
RECURSIVE JoinSpace(_)
JoinSpace(parts) ==
    IF parts = <<>> THEN <<>>
    ELSE IF Len(parts) = 1 THEN Head(parts)
    ELSE Head(parts) \o <<" ">> \o JoinSpace(Tail(parts))

\* line 88
CollapseWhitespace(text) == JoinSpace(SplitWords(text, <<>>))

\* lines 85-88 for one <text> element
CueText(child) == CollapseWhitespace(DecodeEntities(ParseCharData(child.markup)))

\* lines 83-91: the non-empty cue texts of the root's <text> children
RECURSIVE CleanLines(_)
CleanLines(children) ==
    IF children = <<>> THEN <<>>
    ELSE LET c == Head(children)
         IN  (IF c.tag = "text" /\ CueText(c) # <<>> THEN <<CueText(c)>> ELSE <<>>)
             \o CleanLines(Tail(children))

NoText == [none |-> TRUE, text |-> <<>>]

\* lines 75-95: None on any parse error, else the joined cue texts
xml_to_text(doc) ==
    IF ParsesOk(doc)
    THEN [none |-> FALSE, text |-> JoinSpace(CleanLines(doc.children))]
    ELSE NoText

----------------------------------------------------------------------------
(* fetch_captions_with_client and get_transcript_text                      *)

\* Language codes a video's caption list may carry.
Codes == {"en", "a.en", "en-US", "en-GB", "es"}

\* code.startswith('en')
StartsWithEn(code) == code \in {"en", "en-US", "en-GB"}

NoTrack == [client |-> "none", code |-> "none"]

\* What one client identity sees of a video: metadata resolution may throw
\* (line 113), otherwise the caption list is iterated in the order of codes.
\* indexByObject tells whether yt.captions[code] at line 126 succeeds when
\* it is handed the object the iteration at line 124 produced; that is a
\* property of the caption library, not of this program.

\* lines 124-127: the first code in iteration order that starts with 'en'
RECURSIVE FirstEn(_)
FirstEn(codes) ==
    IF codes = <<>> THEN "none"
    ELSE IF StartsWithEn(Head(codes)) THEN Head(codes)
    ELSE FirstEn(Tail(codes))

\* lines 97-129; result: threw, or the selected track (NoTrack when none)
fetch_captions_with_client(meta, client, indexByObject) ==
    IF meta.throws THEN [threw |-> TRUE, track |-> NoTrack]
    ELSE LET have == Range(meta.codes)
         IN  IF "en" \in have
                THEN [threw |-> FALSE, track |-> [client |-> client, code |-> "en"]]
             ELSE IF "a.en" \in have
                THEN [threw |-> FALSE, track |-> [client |-> client, code |-> "a.en"]]
             ELSE IF "en-US" \in have
                THEN [threw |-> FALSE, track |-> [client |-> client, code |-> "en-US"]]
             ELSE IF FirstEn(meta.codes) = "none"
                THEN [threw |-> FALSE, track |-> NoTrack]
             ELSE IF indexByObject
                THEN [threw |-> FALSE,
                      track |-> [client |-> client, code |-> FirstEn(meta.codes)]]
             ELSE [threw |-> TRUE, track |-> NoTrack]

\* The exceptions get_transcript_text raises, by their message.
ErrNoCaptions == "No English captions found"
ErrEmpty      == "Transcript downloaded but parsed empty"
ErrRateLimit  == "Rate Limit (429)"
ErrHttp       == "HTTP Error"
ErrRequest    == "requests.get raised"
FetchErrors   == {ErrNoCaptions, ErrEmpty, ErrRateLimit, ErrHttp, ErrRequest}

Fail(e, steps) == [ok |-> FALSE, text |-> <<>>, err |-> e, track |-> NoTrack, steps |-> steps]

\* A slip in the branches: no case for 429, it falls to the last one.
DownloadNo429(track, resp, steps) ==
    IF resp.status = 0 THEN Fail(ErrRequest, steps)
    ELSE IF resp.status = 200
         THEN LET clean == xml_to_text(resp.doc)
              IN  IF clean.none \/ clean.text = <<>>
                  THEN Fail(ErrEmpty, steps)
                  ELSE [ok |-> TRUE, text |-> clean.text, err |-> "none",
                        track |-> track, steps |-> steps]
    ELSE Fail(ErrHttp, steps)

\* lines 159-174: the side-channel download of the resolved track.
\* resp.status is 200, 429, another code, or 0 when requests.get raised.
Download(track, resp, steps) ==
    IF resp.status = 0 THEN Fail(ErrRequest, steps)
    ELSE IF resp.status = 200
         THEN LET clean == xml_to_text(resp.doc)
              IN  IF clean.none \/ clean.text = <<>>
                  THEN Fail(ErrEmpty, steps)
                  ELSE [ok |-> TRUE, text |-> clean.text, err |-> "none",
                        track |-> track, steps |-> steps]
    ELSE IF resp.status = 429 THEN Fail(ErrRateLimit, steps)
    ELSE Fail(ErrHttp, steps)

\* A slip in the ladder: the secondary identity is never tried.
get_transcript_text_web_only(video, indexByObject) ==
    LET web == fetch_captions_with_client(video.web, "WEB", indexByObject)
    IN  IF web.track = NoTrack
        THEN Fail(ErrNoCaptions, <<"WEB">>)
        ELSE Download(web.track, video.payload["WEB"], <<"WEB", "GET">>)

\* A slip in the ladder: an exception of the primary identity's metadata
\* step is not caught and ends the fetch.
get_transcript_text_no_catch(video, indexByObject) ==
    LET web == fetch_captions_with_client(video.web, "WEB", indexByObject)
    IN  IF web.threw THEN Fail("metadata resolution raised", <<"WEB">>)
        ELSE get_transcript_text_web_only(video, indexByObject)

\* lines 131-174.  video.web / video.android are what each identity sees,
\* video.payload[client] is the response to the download of that client's
\* track.  steps records the upstream requests in the order they are made.
get_transcript_text(video, indexByObject) ==
    LET web == fetch_captions_with_client(video.web, "WEB", indexByObject)
    IN  IF web.track # NoTrack
        THEN Download(web.track, video.payload["WEB"], <<"WEB", "GET">>)
        ELSE LET android == fetch_captions_with_client(video.android, "ANDROID",
                                                       indexByObject)
             IN  IF android.track # NoTrack
                 THEN Download(android.track, video.payload["ANDROID"],
                               <<"WEB", "ANDROID", "GET">>)
                 ELSE Fail(ErrNoCaptions, <<"WEB", "ANDROID">>)

----------------------------------------------------------------------------
(* format_sermon_entry and get_existing_video_ids                          *)

NameEvans   == <<"E","v","a","n","s">>
NameBrisson == <<"B","r","i","s","s","o","n">>
NameGuerra  == <<"G","u","e","r","r","a">>
NameBranham == <<"B","r","a","n","h","a","m">>

\* lines 52-56
Speaker(title) ==
    IF Contains(title, NameEvans) THEN "Brother Daniel Evans"
    ELSE IF Contains(title, NameBrisson) THEN "Brother Steeve Brisson"
    ELSE IF Contains(title, NameGuerra) THEN "Brother Aaron Guerra"
    ELSE IF Contains(title, NameBranham) THEN "Brother William Branham"
    ELSE "Unknown Speaker"

\* The literal pieces of the header template, lines 58-72.
HdrOpen  == "\n################################################################################\nSTART OF FILE: "
Dash     == " - "
HdrMid   == " - Clean.txt\n################################################################################\n\nSERMON DETAILS\n========================================\nDate:    "
HdrTitle == "\nTitle:   "
HdrSpkr  == "\nSpeaker: "
HdrChurch == "\nChurch:  "
HdrUrl   == "\nURL:     https://www."
HdrClose == "\n========================================\n\n"

\* A slip in the template: the URL line carries no identifier.
format_sermon_entry_no_id(video_id, title, date_str, transcript_text, church_name) ==
    <<HdrOpen, date_str, Dash>> \o title \o <<Dash, Speaker(title), HdrMid, date_str,
      HdrTitle>> \o title \o <<HdrSpkr, Speaker(title), HdrChurch, church_name,
      HdrUrl, WatchLit>> \o <<HdrClose>> \o transcript_text \o <<"\n">>

\* lines 51-73
format_sermon_entry(video_id, title, date_str, transcript_text, church_name) ==
    <<HdrOpen, date_str, Dash>> \o title \o <<Dash, Speaker(title), HdrMid, date_str,
      HdrTitle>> \o title \o <<HdrSpkr, Speaker(title), HdrChurch, church_name,
      HdrUrl, WatchLit>> \o video_id \o <<HdrClose>> \o transcript_text \o <<"\n">>

\* The regular expression of line 48 matches at position i of content:
\* the literal, then exactly IdLen characters of the class.
MatchAt(content, i) ==
    /\ content[i] = WatchLit
    /\ i + IdLen <= Len(content)
    /\ \A k \in 1..IdLen : content[i + k] \in IdCharset

\* A slip in the scan: only the last match is kept.
get_existing_video_ids_last(exists, content) ==
    IF ~exists THEN {}
    ELSE {SubSeq(content, i + 1, i + IdLen) :
            i \in {j \in 1..Len(content) :
                      /\ MatchAt(content, j)
                      /\ \A k \in (j + 1)..Len(content) : ~MatchAt(content, k)}}

\* lines 43-49.  A match cannot overlap another (the literal is not in the
\* class), so re.findall returns the identifier after every matching position.
get_existing_video_ids(exists, content) ==
    IF ~exists THEN {}
    ELSE {SubSeq(content, i + 1, i + IdLen) :
            i \in {j \in 1..Len(content) : MatchAt(content, j)}}

----------------------------------------------------------------------------
(* The environment of a run: the channel's two listing tabs, what the      *)
(* upstream answers for each video, the clock, and the destination file.   *)

MkId(c) == [i \in 1..IdLen |-> c]
IdA == MkId("A")
IdB == MkId("B")
IdC == MkId("C")
VideoIds == {IdA, IdB, IdC}

Descriptor(id, title) == [videoId |-> id, hasTitle |-> TRUE, title |-> title]
Untitled(id)          == [videoId |-> id, hasTitle |-> FALSE, title |-> <<>>]

TabFails    == [fails |-> TRUE,  items |-> <<>>]
TabOf(items) == [fails |-> FALSE, items |-> items]

TitleA == <<"E","v","a","n","s"," ","1">>
TitleB == <<"t","w","o">>

\* What the 'streams' tab may answer, and the 'videos' tab.
StreamsTabs == {TabFails, TabOf(<<Descriptor(IdA, TitleA), Descriptor(IdB, TitleB)>>)}
VideosTabs  == {TabOf(<<>>), TabOf(<<Untitled(IdB), Untitled(IdC)>>)}

Doc(children) == [wellFormed |-> TRUE, children |-> children]
Cue(markup)   == [tag |-> "text", markup |-> markup]
BadDoc        == [wellFormed |-> FALSE, children |-> <<>>]

Meta(codes) == [throws |-> FALSE, codes |-> codes]
MetaThrows  == [throws |-> TRUE, codes |-> <<>>]

Resp(status, doc) == [status |-> status, doc |-> doc]
NoResp == Resp(404, BadDoc)

Video(web, android, respWeb, respAndroid) ==
    [web |-> web, android |-> android,
     payload |-> [c \in {"WEB", "ANDROID"} |-> IF c = "WEB" THEN respWeb ELSE respAndroid]]

\* A transcript whose text quotes the watch URL of video A.
MentionA == <<"s","e","e"," ","h","t","t","p","s",":","/","/", WatchLit>> \o IdA

\* The answers the upstream may give for each video.
VideoStates(id) ==
    IF id = IdA THEN
        { Video(Meta(<<"en">>), Meta(<<>>),
                Resp(200, Doc(<<Cue(<<"a", " ", "\n", "b">>), Cue(<<"c">>)>>)), NoResp),
          Video(Meta(<<"en">>), Meta(<<>>), Resp(429, BadDoc), NoResp) }
    ELSE IF id = IdB THEN
        { Video(Meta(<<"es">>), Meta(<<"es", "a.en">>), NoResp,
                Resp(200, Doc(<<Cue(MentionA)>>))),
          Video(MetaThrows, Meta(<<"es">>), NoResp, NoResp) }
    ELSE
        { Video(MetaThrows, Meta(<<"en-GB">>), NoResp,
                Resp(200, Doc(<<Cue(<<"I", EntAmp, "#", "3", "9", ";", "m">>)>>))),
          Video(Meta(<<"en-US">>), Meta(<<>>), Resp(200, Doc(<<Cue(<<" ">>)>>)), NoResp) }

Date1 == "2026-11-02"
Date2 == "2026-11-03"

ChurchName == "Church One"

\* Destination files a first run may find: none, one with unrelated text,
\* one that already archives video C.
OldEntryC == format_sermon_entry(IdC, <<"o","l","d">>, "2026-10-01", <<"z">>, ChurchName)
InitialFiles ==
    { [exists |-> FALSE, content |-> <<>>],
      [exists |-> TRUE,  content |-> <<"n","o","t","e","s","\n">>],
      [exists |-> TRUE,  content |-> OldEntryC] }

\* line 15
CONFIG_FILES == <<"channels.json", "config.json">>

\* One item of the configuration mapping: the channel's display name and its
\* config['filename'].  config['url'] names the channel whose two tabs are
\* listed; what the listing answers is the environment's choice.
Channel(name, fname) == [name |-> name, filename |-> fname]

ChannelOne == Channel(ChurchName, "church_one.txt")
ChannelTwo == Channel("Church Two", "church_two.txt")
FileNames  == {ChannelOne.filename, ChannelTwo.filename}

\* A configuration file: missing, or holding a mapping (its items in order).
NoConfigFile        == [exists |-> FALSE, mapping |-> <<>>]
ConfigFile(mapping) == [exists |-> TRUE, mapping |-> mapping]

NoFile == [exists |-> FALSE, content |-> <<>>]

\* Bounds of the exploration.
MaxRuns    == 2
MaxChanges == 1
MaxCrashes == 1

----------------------------------------------------------------------------
(* State                                                                   *)

VARIABLES
    \* the environment
    streamsTab,     \* what the 'streams' listing answers
    videosTab,      \* what the 'videos' listing answers
    vids,           \* what the upstream answers for each video
    today,          \* datetime.now() as %Y-%m-%d
    indexByObject,  \* behaviour of the caption library at line 126
    dirExists,      \* DATA_DIR exists
    fileExists,     \* the destination file exists
    file,           \* its content on disk
    \* process_channel
    pc,             \* position in process_channel, "idle" between runs
    existing_ids,
    all_videos,
    unique_videos,
    idx,            \* position of the loop of line 223 in unique_videos
    new_entries,
    fallback_date,
    wpos,           \* position of the loop of line 248 in new_entries
    fbuf,           \* text handed to f.write and not yet on disk
    \* bookkeeping of the exploration, read by the properties only
    runs, changes, crashes,
    dirty,          \* the upstream changed since the last run started
    changedBefore,  \* ... between the start of the previous run and this one
    lastStatus,     \* "none", "running", "complete", "crashed"
    prevStatus,     \* lastStatus of the run before
    startExists, startFile,   \* the destination file when the run started
    prevFailed,     \* the identifiers whose fetch failed in the run before
    fetchLog,       \* the calls of get_transcript_text of this run, in order
    written,        \* the entries handed to f.write by this run, in order
    \* inputs and results of the functions checked on their own
    probeIn, probeOut,
    \* the arguments of process_channel
    church_name,
    filename,       \* config['filename']: the file that `file` is
    \* main
    configs,        \* for each name of CONFIG_FILES: is it there, what it holds
    shelf,          \* the other files of DATA_DIR, by name
    mpc,            \* position in main, "off" when process_channel runs on its own
    channels,       \* what load_config returned
    chan,           \* position of the loop of line 262 in channels
    called,         \* the channels process_channel was called for, in order
    returned        \* what happened in each call that returned, in order

envVars   == <<streamsTab, videosTab, vids, today, indexByObject>>
diskVars  == <<dirExists, fileExists, file>>
procVars  == <<pc, existing_ids, all_videos, unique_videos, idx, new_entries,
               fallback_date, wpos, fbuf>>
histVars  == <<runs, changes, crashes, dirty, changedBefore, lastStatus, prevStatus,
               startExists, startFile, prevFailed, fetchLog, written>>
probeVars == <<probeIn, probeOut>>
mainVars  == <<church_name, filename, configs, shelf, mpc, channels, chan, called,
               returned>>
vars == <<envVars, diskVars, procVars, histVars, probeVars, mainVars>>

NoProbe == [kind |-> "none"]

ProcIdle ==
    /\ pc = "idle"
    /\ existing_ids = {}
    /\ all_videos = <<>>
    /\ unique_videos = <<>>
    /\ idx = 0
    /\ new_entries = <<>>
    /\ fallback_date = ""
    /\ wpos = 0
    /\ fbuf = <<>>

HistInit ==
    /\ runs = 0 /\ changes = 0 /\ crashes = 0
    /\ dirty = FALSE /\ changedBefore = FALSE
    /\ lastStatus = "none" /\ prevStatus = "none"
    /\ startExists = FALSE /\ startFile = <<>>
    /\ prevFailed = {}
    /\ fetchLog = <<>> /\ written = <<>>

\* process_channel is run on its own, for one channel
MainOff ==
    /\ church_name = ChannelOne.name
    /\ filename = ChannelOne.filename
    /\ configs = <<ConfigFile(<<ChannelOne>>), NoConfigFile>>
    /\ shelf = [f \in FileNames |-> NoFile]
    /\ mpc = "off"
    /\ channels = <<>>
    /\ chan = 0
    /\ called = <<>>
    /\ returned = <<>>

Init ==
    /\ streamsTab \in StreamsTabs
    /\ videosTab \in VideosTabs
    /\ vids \in [VideoIds -> UNION {VideoStates(id) : id \in VideoIds}]
    /\ \A id \in VideoIds : vids[id] \in VideoStates(id)
    /\ today = Date1
    /\ indexByObject \in BOOLEAN
    /\ \E f \in InitialFiles :
          /\ fileExists = f.exists
          /\ file = f.content
          /\ dirExists = f.exists
    /\ ProcIdle
    /\ HistInit
    /\ MainOff
    /\ probeIn = NoProbe /\ probeOut = NoProbe

----------------------------------------------------------------------------
(* process_channel                                                         *)

\* line 212: {v['videoId']: v for v in all_videos}.values() keeps one
\* descriptor per identifier, at the position of its first occurrence and
\* with the value of its last.
LastWith(videos, id) ==
    videos[CHOOSE i \in 1..Len(videos) :
              /\ videos[i].videoId = id
              /\ \A j \in (i + 1)..Len(videos) : videos[j].videoId # id]

RECURSIVE FirstOccurrences(_, _)
FirstOccurrences(videos, seen) ==
    IF videos = <<>> THEN <<>>
    ELSE IF Head(videos).videoId \in seen
         THEN FirstOccurrences(Tail(videos), seen)
         ELSE <<Head(videos).videoId>>
              \o FirstOccurrences(Tail(videos), seen \cup {Head(videos).videoId})

\* A slip in the merge: the two tabs are concatenated and nothing is collapsed.
DeduplicateNot(videos) == videos

Deduplicate(videos) ==
    LET keys == FirstOccurrences(videos, {})
    IN  [i \in 1..Len(keys) |-> LastWith(videos, keys[i])]

\* lines 225-226
TitleOf(video) == IF video.hasTitle THEN video.title ELSE <<"Unknown Title">>

\* A slip in the filter: nothing counts as archived.
IsArchivedNever(video_id, ids) == FALSE

\* line 228: the decision is made against the index read at line 190
IsArchived(video_id, ids) == video_id \in ids

\* A slip in the loop: the first failed fetch ends it.
NextIndexAbort(i, res, n) == IF res.ok THEN i + 1 ELSE n + 1

\* lines 233-243: the try/except is inside the loop of line 223, so the
\* loop goes on to the next candidate whatever the fetch did
NextIndex(i, res, n) == i + 1

\* A slip in the loop: the entry is buffered whatever the fetch did.
BufferEntryAlways(entries, res, entry) == Append(entries, entry)

\* lines 237-239: the entry is formatted and buffered when the fetch returned
\* a text, and not when it raised
BufferEntry(entries, res, entry) == IF res.ok THEN Append(entries, entry) ELSE entries

\* A slip in the guard: the file is opened for any batch.
ShouldWriteAlways(entries) == TRUE

\* line 245: if new_entries
ShouldWrite(entries) == entries # <<>>

\* A slip in the mode: 'w' instead of 'a'.
AppendTextTruncating(content, text) == text

\* line 247: the file is opened with mode 'a', what is written follows
\* what is there
AppendText(content, text) == content \o text

\* the return of line 216 and the end of the function
Finish ==
    /\ pc' = "idle"
    /\ existing_ids' = {}
    /\ all_videos' = <<>>
    /\ unique_videos' = <<>>
    /\ idx' = 0
    /\ new_entries' = <<>>
    /\ fallback_date' = ""
    /\ wpos' = 0
    /\ fbuf' = <<>>
    /\ lastStatus' = "complete"

FailedIds(log) == {log[i].videoId : i \in {j \in 1..Len(log) : ~log[j].ok}}

\* lines 177-193 for the destination file (exists, content): the directory
\* is made, the archive index is read
Enter(exists, content) ==
    /\ pc' = "scan_streams"
    /\ dirExists' = TRUE
    /\ existing_ids' = get_existing_video_ids(exists, content)
    /\ all_videos' = <<>>
    /\ runs' = runs + 1
    /\ changedBefore' = dirty
    /\ dirty' = FALSE
    /\ prevStatus' = lastStatus
    /\ lastStatus' = "running"
    /\ startExists' = exists
    /\ startFile' = content
    /\ prevFailed' = FailedIds(fetchLog)
    /\ fetchLog' = <<>>
    /\ written' = <<>>
    /\ UNCHANGED <<unique_videos, idx, new_entries, fallback_date, wpos, fbuf,
                   changes, crashes, probeVars>>

\* process_channel is called for the one channel
StartRun ==
    /\ pc = "idle"
    /\ mpc = "off"
    /\ runs < MaxRuns
    /\ Enter(fileExists, file)
    /\ UNCHANGED <<envVars, fileExists, file, mainVars>>

\* lines 196-201
ScanStreams ==
    /\ pc = "scan_streams"
    /\ pc' = "scan_videos"
    /\ all_videos' = IF streamsTab.fails THEN all_videos
                     ELSE all_videos \o streamsTab.items
    /\ UNCHANGED <<envVars, diskVars, existing_ids, unique_videos, idx, new_entries,
                   fallback_date, wpos, fbuf, histVars, probeVars, mainVars>>

\* lines 204-209
ScanVideos ==
    /\ pc = "scan_videos"
    /\ pc' = "dedup"
    /\ all_videos' = IF videosTab.fails THEN all_videos
                     ELSE all_videos \o videosTab.items
    /\ UNCHANGED <<envVars, diskVars, existing_ids, unique_videos, idx, new_entries,
                   fallback_date, wpos, fbuf, histVars, probeVars, mainVars>>

\* lines 212-221
Dedup ==
    /\ pc = "dedup"
    /\ IF Deduplicate(all_videos) = <<>>
       THEN /\ Finish
            /\ UNCHANGED <<envVars, diskVars, runs, changes, crashes, dirty,
                           changedBefore, prevStatus, startExists, startFile, prevFailed,
                           fetchLog, written, probeVars, mainVars>>
       ELSE /\ pc' = "loop"
            /\ unique_videos' = Deduplicate(all_videos)
            /\ idx' = 1
            /\ new_entries' = <<>>
            /\ fallback_date' = today
            /\ UNCHANGED <<envVars, diskVars, existing_ids, all_videos, wpos, fbuf,
                           histVars, probeVars, mainVars>>

\* lines 223-243, one iteration
LoopStep ==
    /\ pc = "loop"
    /\ idx <= Len(unique_videos)
    /\ LET video == unique_videos[idx]
           video_id == video.videoId
           title == TitleOf(video)
           res == get_transcript_text(vids[video_id], indexByObject)
           entry == format_sermon_entry(video_id, title, fallback_date, res.text,
                                        church_name)
       IN  IF IsArchived(video_id, existing_ids)
           THEN /\ idx' = idx + 1                           \* continue, line 229
                /\ UNCHANGED <<new_entries, fetchLog>>
           ELSE /\ fetchLog' = Append(fetchLog,
                                      [videoId |-> video_id, ok |-> res.ok,
                                       title |-> title, text |-> res.text,
                                       date |-> fallback_date,
                                       err |-> res.err, steps |-> res.steps,
                                       entry |-> IF res.ok THEN entry ELSE <<>>])
                /\ new_entries' = BufferEntry(new_entries, res, entry)
                /\ idx' = NextIndex(idx, res, Len(unique_videos))
    /\ UNCHANGED <<envVars, diskVars, pc, existing_ids, all_videos, unique_videos,
                   fallback_date, wpos, fbuf, runs, changes, crashes, dirty,
                   changedBefore, lastStatus, prevStatus, startExists, startFile, prevFailed,
                   written, probeVars, mainVars>>

\* lines 245-247 and 251-252: the loop is over
EndLoop ==
    /\ pc = "loop"
    /\ idx > Len(unique_videos)
    /\ IF ~ShouldWrite(new_entries)
       THEN /\ Finish
            /\ UNCHANGED <<envVars, diskVars, runs, changes, crashes, dirty,
                           changedBefore, prevStatus, startExists, startFile, prevFailed,
                           fetchLog, written, probeVars, mainVars>>
       ELSE /\ pc' = "write"
            /\ fileExists' = TRUE          \* open(filepath, 'a') creates the file
            /\ wpos' = Len(new_entries)
            /\ fbuf' = <<>>
            /\ UNCHANGED <<envVars, dirExists, file, existing_ids, all_videos,
                           unique_videos, idx, new_entries, fallback_date,
                           histVars, probeVars, mainVars>>

\* A slip in the write pass: the entries go out in the order they came in.
EntryToWriteForward(entries, left) == entries[Len(entries) - left + 1]

\* line 248: reversed(new_entries), with `left` entries still to write
EntryToWrite(entries, left) == entries[left]

\* Where the buffer may stop writing through.  Any point is possible; the
\* ones explored are none of the text, all of it, and around every watch
\* URL it holds: before the URL, inside the identifier and right after it.
FlushPoints(pending) ==
    {0, Len(pending)} \cup
    UNION {{i - 1, i + (IdLen \div 2), i + IdLen} :
              i \in {j \in 1..Len(pending) : MatchAt(pending, j)}}

\* lines 248-249, one f.write: the text goes to the file object's buffer,
\* and the buffer writes a part of what it holds through to the disk.
WriteEntry ==
    /\ pc = "write"
    /\ wpos >= 1
    /\ LET pending == fbuf \o EntryToWrite(new_entries, wpos)
       IN  \E k \in FlushPoints(pending) :
              /\ file' = AppendText(file, SubSeq(pending, 1, k))
              /\ fbuf' = SubSeq(pending, k + 1, Len(pending))
    /\ written' = Append(written, EntryToWrite(new_entries, wpos))
    /\ wpos' = wpos - 1
    /\ UNCHANGED <<envVars, dirExists, fileExists, pc, existing_ids, all_videos,
                   unique_videos, idx, new_entries, fallback_date, runs, changes,
                   crashes, dirty, changedBefore, lastStatus, prevStatus,
                   startExists, startFile, prevFailed, fetchLog, probeVars, mainVars>>

\* the end of the with block of line 247: the buffer is flushed, the file closed
CloseFile ==
    /\ pc = "write"
    /\ wpos = 0
    /\ file' = AppendText(file, fbuf)
    /\ Finish
    /\ UNCHANGED <<envVars, dirExists, fileExists, runs, changes, crashes, dirty,
                   changedBefore, prevStatus, startExists, startFile, prevFailed, fetchLog,
                   written, probeVars, mainVars>>

\* The process dies in the middle of a run: memory is lost, the disk is kept.
Crash ==
    /\ pc # "idle"
    /\ crashes < MaxCrashes
    /\ crashes' = crashes + 1
    /\ pc' = "idle"
    /\ existing_ids' = {}
    /\ all_videos' = <<>>
    /\ unique_videos' = <<>>
    /\ idx' = 0
    /\ new_entries' = <<>>
    /\ fallback_date' = ""
    /\ wpos' = 0
    /\ fbuf' = <<>>
    /\ lastStatus' = "crashed"
    /\ UNCHANGED <<envVars, diskVars, runs, changes, dirty, changedBefore, prevStatus,
                   startExists, startFile, prevFailed, fetchLog, written, probeVars, mainVars>>

\* Between two runs the upstream changes one of its answers.  Each answer is
\* read at most once in a run, so a change in the middle of a run is the
\* same as a change before it.
UpstreamChange ==
    /\ pc = "idle"
    /\ changes < MaxChanges
    /\ runs < MaxRuns
    /\ changes' = changes + 1
    /\ dirty' = TRUE
    /\ \/ /\ streamsTab' \in StreamsTabs \ {streamsTab}
          /\ UNCHANGED <<videosTab, vids>>
       \/ /\ videosTab' \in VideosTabs \ {videosTab}
          /\ UNCHANGED <<streamsTab, vids>>
       \/ \E id \in VideoIds : \E v \in VideoStates(id) \ {vids[id]} :
             /\ vids' = [vids EXCEPT ![id] = v]
             /\ UNCHANGED <<streamsTab, videosTab>>
    /\ UNCHANGED <<today, indexByObject, diskVars, procVars, runs, crashes,
                   changedBefore, lastStatus, prevStatus, startExists, startFile, prevFailed,
                   fetchLog, written, probeVars, mainVars>>

\* Midnight passes between two runs.
NextDay ==
    /\ pc = "idle"
    /\ today = Date1
    /\ runs < MaxRuns
    /\ today' = Date2
    /\ UNCHANGED <<streamsTab, videosTab, vids, indexByObject, diskVars, procVars,
                   histVars, probeVars, mainVars>>

Next ==
    \/ StartRun \/ ScanStreams \/ ScanVideos \/ Dedup \/ LoopStep \/ EndLoop
    \/ WriteEntry \/ CloseFile \/ Crash \/ UpstreamChange \/ NextDay

Spec == Init /\ [][Next]_vars

----------------------------------------------------------------------------
(* Properties of process_channel                                           *)

Dates == {Date1, Date2}

RECURSIVE Reverse(_)
Reverse(q) == IF q = <<>> THEN <<>> ELSE Append(Reverse(Tail(q)), Head(q))

\* The header URL line of an entry for id, as the template writes it.
UrlLine(id) == <<HdrUrl, WatchLit>> \o id

\* How many entry headers in content carry the URL line of id.
UrlLineCount(content, id) ==
    Cardinality({i \in 1..Len(content) : OccursAt(content, UrlLine(id), i)})

HasEntry(content, id) == UrlLineCount(content, id) >= 1

\* The identifiers the listing tabs name now.
Listed ==
    {streamsTab.items[i].videoId : i \in 1..Len(streamsTab.items)} \cup
    {videosTab.items[i].videoId : i \in 1..Len(videosTab.items)}

\* The archive index the last started run read.
Snapshot == get_existing_video_ids(startExists, startFile)

\* The entries the run buffered, in discovery order.
RECURSIVE OkEntries(_)
OkEntries(log) ==
    IF log = <<>> THEN <<>>
    ELSE (IF Head(log).ok THEN <<Head(log).entry>> ELSE <<>>) \o OkEntries(Tail(log))

NoneFetched == \A i \in 1..Len(fetchLog) : ~fetchLog[i].ok

\* Two complete runs in a row with the same upstream in between.
TwoRunsSameUpstream ==
    /\ lastStatus = "complete"
    /\ prevStatus = "complete"
    /\ ~changedBefore

\* C1: when process_channel runs twice in succession and the upstream is the
\* same for both runs, the second run appends no entry and leaves the
\* destination file as the first run left it.
C1_Idempotence ==
    TwoRunsSameUpstream =>
        /\ written = <<>>
        /\ file = startFile
        /\ fileExists = startExists

\* The second run found entries of the first, fetched a candidate again
\* (it failed as before), and wrote nothing.
C1_Witness ==
    /\ TwoRunsSameUpstream
    /\ fetchLog # <<>>
    /\ \E id \in {IdA, IdB} : HasEntry(file, id)
    /\ file = startFile

\* C2: in every state, after any runs with any listings and fetch outcomes,
\* the destination file holds at most one entry header whose URL line is
\* watch?v=<id>, for every identifier.
C2_NoDuplicateEntries ==
    \A id \in VideoIds : UrlLineCount(file, id) <= 1

\* Two runs completed, video B is listed in both tabs and has one entry.
C2_Witness ==
    /\ runs = 2
    /\ lastStatus = "complete"
    /\ \E i \in 1..Len(streamsTab.items) : streamsTab.items[i].videoId = IdB
    /\ \E i \in 1..Len(videosTab.items) : videosTab.items[i].videoId = IdB
    /\ UrlLineCount(file, IdB) = 1

\* C3: the content the destination file had when a run started is a prefix
\* of its content at every later point of the run and after it, a file that
\* existed still exists, and the identifiers extracted from it only grow.
C3_AppendOnly ==
    runs >= 1 =>
        /\ IsPrefix(startFile, file)
        /\ startExists => fileExists
        /\ Snapshot \subseteq get_existing_video_ids(fileExists, file)

\* A run added entries after content that was already there.
C3_Witness ==
    /\ lastStatus = "complete"
    /\ startFile # <<>>
    /\ written # <<>>
    /\ Len(file) > Len(startFile)
    /\ Snapshot # get_existing_video_ids(fileExists, file)

\* C4: when a run completes, get_transcript_text was called once for every
\* listed identifier that was not in the archive index, whatever the calls
\* before it did; the entries written are those of the calls that
\* succeeded, each with one URL line in the file, and an identifier whose
\* call failed has no entry.
C4_PartialFailureIsolation ==
    (lastStatus = "complete" /\ ~dirty) =>
        LET newIds == Listed \ Snapshot
            ok == {i \in 1..Len(fetchLog) : fetchLog[i].ok}
        IN  /\ {fetchLog[i].videoId : i \in 1..Len(fetchLog)} = newIds
            /\ Len(fetchLog) = Cardinality(newIds)
            /\ Len(written) = Cardinality(ok)
            /\ Range(written) = {fetchLog[i].entry : i \in ok}
            /\ \A i \in ok :
                  /\ \E d \in Dates :
                        fetchLog[i].entry =
                            format_sermon_entry(fetchLog[i].videoId, fetchLog[i].title,
                                                d, fetchLog[i].text, ChurchName)
                  /\ UrlLineCount(file, fetchLog[i].videoId) = 1
            /\ \A i \in 1..Len(fetchLog) :
                  ~fetchLog[i].ok => UrlLineCount(file, fetchLog[i].videoId) = 0
            /\ file = startFile \o Flatten(written)

\* Three candidates, the second failed, the first and the third are written.
C4_Witness ==
    /\ lastStatus = "complete"
    /\ ~dirty
    /\ Len(fetchLog) = 3
    /\ fetchLog[1].ok /\ ~fetchLog[2].ok /\ fetchLog[3].ok
    /\ HasEntry(file, fetchLog[1].videoId)
    /\ HasEntry(file, fetchLog[3].videoId)
    /\ ~HasEntry(file, fetchLog[2].videoId)

\* C6: as long as a run has buffered no entry (nothing listed, everything
\* listed already archived, or every fetch failed) the destination file is
\* as it was when the run started, and a file that did not exist does not.
C6_EmptyBatchNoWrite ==
    (runs >= 1 /\ NoneFetched) =>
        /\ file = startFile
        /\ fileExists = startExists

\* A run in which every fetch failed completed and there is still no file.
C6_Witness ==
    /\ lastStatus = "complete"
    /\ fetchLog # <<>>
    /\ NoneFetched
    /\ ~startExists
    /\ ~fileExists

\* C9: after a crash during a run the destination file holds either the
\* whole batch the run buffered or nothing of it.
C9_BatchAllOrNothing ==
    lastStatus = "crashed" =>
        \/ file = startFile
        \/ file = startFile \o Flatten(Reverse(OkEntries(fetchLog)))

\* A complete run that follows a crashed one, with the same upstream.
RerunAfterCrash ==
    /\ lastStatus = "complete"
    /\ prevStatus = "crashed"
    /\ ~changedBefore
    /\ ~dirty

Fetchable(id) == get_transcript_text(vids[id], indexByObject).ok

NoEntryTwice ==
    \A j \in 1..Len(written) : \A id \in VideoIds :
        HasEntry(written[j], id) => ~HasEntry(startFile, id)

FetchesOf(id) == {i \in 1..Len(fetchLog) : fetchLog[i].videoId = id}

\* The last started run has completed and the upstream is as it found it.
RunDone == lastStatus = "complete" /\ ~dirty

RetriedAndArchived(id) ==
    /\ FetchesOf(id) # {}
    /\ \A i \in FetchesOf(id) :
          fetchLog[i].ok => /\ fetchLog[i].entry \in Range(written)
                            /\ UrlLineCount(file, id) = 1

\* A watch URL with id stands in content outside a header URL line.
QuotedIn(content, id) ==
    \E i \in 1..Len(content) :
        /\ MatchAt(content, i)
        /\ SubSeq(content, i + 1, i + IdLen) = id
        /\ ~(i > 1 /\ content[i - 1] = HdrUrl)

\* C13 as stated: a video whose fetch failed in the run before has no entry
\* from that run and is not in the archive index of this run; if it is still
\* listed it is fetched again, and if that fetch succeeds its entry is
\* appended by this run.
C13_RetryOnNextRun ==
    \A id \in prevFailed :
        /\ ~HasEntry(startFile, id)
        /\ id \notin Snapshot
        /\ (RunDone /\ id \in Listed) => RetriedAndArchived(id)

\* C13 amended: ... has no entry from that run, and is in the archive index
\* of this run only when a watch URL with its identifier stands elsewhere in
\* the file (quoted in the title or transcript of another entry), and then
\* it is not fetched; otherwise, if it is still listed it is fetched again,
\* and if that fetch succeeds its entry is appended by this run.
C13_RetryUnlessQuoted ==
    \A id \in prevFailed :
        /\ ~HasEntry(startFile, id)
        /\ id \in Snapshot => (QuotedIn(startFile, id) /\ FetchesOf(id) = {})
        /\ (RunDone /\ id \in Listed /\ id \notin Snapshot) => RetriedAndArchived(id)

\* The fetch of A failed in the first run; A is fetched again in the second
\* run, this time with success, and has its entry.
C13_Witness ==
    /\ runs = 2
    /\ RunDone
    /\ IdA \in prevFailed
    /\ \E i \in FetchesOf(IdA) : fetchLog[i].ok
    /\ UrlLineCount(file, IdA) = 1
    /\ ~HasEntry(startFile, IdA)

Count(q, x) == Cardinality({k \in 1..Len(q) : q[k] = x})

PrimaryTrack(id) ==
    fetch_captions_with_client(vids[id].web, "WEB", indexByObject).track

SecondaryTrack(id) ==
    fetch_captions_with_client(vids[id].android, "ANDROID", indexByObject).track

\* C16: in one run get_transcript_text is called at most once for an
\* identifier; in one call the primary identity is asked once and first, the
\* secondary at most once and exactly when the primary gave no track, the
\* download is made at most once, last, and exactly when a track was
\* resolved; a 429 answer ends the call as a failure with nothing after it.
C16_NoRetryLadderOrder ==
    /\ \A i, j \in 1..Len(fetchLog) :
          fetchLog[i].videoId = fetchLog[j].videoId => i = j
    /\ \A i \in 1..Len(fetchLog) :
          LET f == fetchLog[i]
              st == f.steps
          IN  /\ Count(st, "WEB") = 1 /\ st[1] = "WEB"
              /\ Count(st, "ANDROID") <= 1
              /\ Count(st, "GET") <= 1
              /\ \A k \in 1..Len(st) :
                    /\ st[k] = "ANDROID" => k = 2
                    /\ st[k] = "GET" => k = Len(st)
              /\ f.err = ErrRateLimit =>
                    (~f.ok /\ st[Len(st)] = "GET" /\ f.entry = <<>>)
              /\ ~dirty =>
                    /\ "ANDROID" \in Range(st) <=> PrimaryTrack(f.videoId) = NoTrack
                    /\ "GET" \in Range(st) <=>
                          (PrimaryTrack(f.videoId) # NoTrack
                             \/ SecondaryTrack(f.videoId) # NoTrack)
                    /\ ("GET" \in Range(st)
                          /\ vids[f.videoId].payload[st[Len(st) - 1]].status = 429) =>
                          f.err = ErrRateLimit

\* A complete run: the download for A was rate limited and A was left, B
\* (listed in both tabs) was fetched once, through the secondary identity.
C16_Witness ==
    /\ RunDone
    /\ \E i, j \in 1..Len(fetchLog) :
          /\ fetchLog[i].videoId = IdA
          /\ fetchLog[i].err = ErrRateLimit
          /\ fetchLog[i].steps = <<"WEB", "GET">>
          /\ fetchLog[j].videoId = IdB
          /\ fetchLog[j].ok
          /\ fetchLog[j].steps = <<"WEB", "ANDROID", "GET">>
    /\ \E k \in 1..Len(videosTab.items) : videosTab.items[k].videoId = IdB
    /\ ~HasEntry(file, IdA)

\* The identifiers the two tabs list, streams first, each at its first place.
Discovered ==
    FirstOccurrences((IF streamsTab.fails THEN <<>> ELSE streamsTab.items)
                     \o (IF videosTab.fails THEN <<>> ELSE videosTab.items), {})

\* Where the header URL line of id stands in content.
PosOf(content, id) == CHOOSE p \in 1..Len(content) : OccursAt(content, UrlLine(id), p)

\* C18: when a run has completed, the candidates were fetched in discovery
\* order (streams tab, then videos tab, an identifier listed twice at its
\* first place), the entry of a candidate discovered later stands before
\* the entry of one discovered earlier, and all entries of the run stand
\* after what the file held before.
C18_WriteOrder ==
    RunDone =>
        /\ [i \in 1..Len(fetchLog) |-> fetchLog[i].videoId]
              = SelectSeq(Discovered, LAMBDA id : id \notin Snapshot)
        /\ \A i, j \in 1..Len(fetchLog) :
              (i < j /\ fetchLog[i].ok /\ fetchLog[j].ok) =>
                 PosOf(file, fetchLog[j].videoId) < PosOf(file, fetchLog[i].videoId)
        /\ \A i \in 1..Len(fetchLog) :
              fetchLog[i].ok =>
                 /\ HasEntry(file, fetchLog[i].videoId)
                 /\ PosOf(file, fetchLog[i].videoId) > Len(startFile)
        /\ IsPrefix(startFile, file)

\* Three entries were written after older content: C's first, then B's
\* (B is listed in both tabs), then A's.
C18_Witness ==
    /\ RunDone
    /\ startFile # <<>>
    /\ Len(written) = 3
    /\ Discovered = <<IdA, IdB, IdC>>
    /\ PosOf(file, IdC) < PosOf(file, IdB)
    /\ PosOf(file, IdB) < PosOf(file, IdA)
    /\ PosOf(file, IdC) > Len(startFile)

Listing == pc \in {"scan_streams", "scan_videos", "dedup", "loop"}

\* C19: in a run the archive index is read once, before anything is listed:
\* the index the run decides with is the one of its start and never changes
\* during the run, also once the file has grown; the file is as it was until
\* every candidate has been processed; get_transcript_text is never called
\* for an identifier of that index.
C19_SingleSnapshot ==
    /\ [](/\ pc # "idle" => existing_ids = Snapshot
          /\ pc = "scan_streams" => (all_videos = <<>> /\ fetchLog = <<>>)
          /\ Listing => (file = startFile /\ fileExists = startExists
                            /\ written = <<>>)
          /\ pc = "write" => idx > Len(unique_videos)
          /\ \A i \in 1..Len(fetchLog) : fetchLog[i].videoId \notin Snapshot)
    /\ [][(pc # "idle" /\ pc' # "idle") => existing_ids' = existing_ids]_vars

\* The run is writing: the file already holds an identifier the index of
\* the run does not, and a listed identifier of the index was not fetched.
C19_Witness ==
    /\ pc = "write"
    /\ existing_ids # {}
    /\ get_existing_video_ids(fileExists, file) # existing_ids
    /\ existing_ids = Snapshot
    /\ \E id \in existing_ids :
          /\ id \in Range(Discovered)
          /\ FetchesOf(id) = {}

\* What the next run would take for archived.
Recognized == get_existing_video_ids(fileExists, file)

\* C20 as stated: between runs, an identifier is in the set
\* get_existing_video_ids returns exactly when the file holds an entry whose
\* header URL line carries it.
C20_UrlLineSoleMechanism ==
    pc = "idle" =>
        \A id \in VideoIds : id \in Recognized <=> HasEntry(file, id)

\* C20 amended: an identifier is in the set exactly when a watch URL with it
\* stands in the file, in the header URL line of an entry or quoted in a
\* title or transcript: every identifier whose entry a run appended is
\* recognized, and one without an entry is recognized only when quoted.
C20_WatchUrlAnywhere ==
    /\ \A id \in VideoIds :
          id \in Recognized <=> (HasEntry(file, id) \/ QuotedIn(file, id))
    /\ lastStatus = "complete" =>
          \A i \in 1..Len(fetchLog) :
             fetchLog[i].ok =>
                /\ fetchLog[i].videoId \in Recognized
                /\ HasEntry(file, fetchLog[i].videoId)
    /\ Recognized \subseteq VideoIds

\* A run appended the entry of B, whose transcript quotes the watch URL of
\* A: B is recognized by its URL line, A without an entry.
C20_Witness ==
    /\ lastStatus = "complete"
    /\ \E i \in 1..Len(fetchLog) : fetchLog[i].ok /\ fetchLog[i].videoId = IdB
    /\ HasEntry(file, IdB)
    /\ ~HasEntry(file, IdA)
    /\ QuotedIn(file, IdA)
    /\ {IdA, IdB} \subseteq Recognized

----------------------------------------------------------------------------
(* main: the configuration is loaded, process_channel is called for every  *)
(* item of it in turn.  Each channel has its own upstream and its own      *)
(* destination file; `file` is the file of the call in progress, `shelf`   *)
(* keeps the others.                                                       *)

\* A slip in load_config: a built-in mapping when no file is found.
RECURSIVE load_config_default(_)
load_config_default(files) ==
    IF files = <<>> THEN <<ChannelOne>>
    ELSE IF Head(files).exists THEN Head(files).mapping
    ELSE load_config_default(Tail(files))

\* lines 34-41: the mapping of the first file that exists, else {}
RECURSIVE load_config(_)
load_config(files) ==
    IF files = <<>> THEN <<>>
    ELSE IF Head(files).exists THEN Head(files).mapping
    ELSE load_config(Tail(files))

\* A slip in the loop of main: it is left after the first call.
NextChannelLeave(i, n) == n + 1

\* line 262: the loop goes on to the next item when the call returns
NextChannel(i, n) == i + 1

\* What the call that just returned met, for the properties.
Summary ==
    [name      |-> church_name,
     tabFailed |-> streamsTab.fails \/ videosTab.fails,
     empty     |-> (IF streamsTab.fails THEN <<>> ELSE streamsTab.items)
                   \o (IF videosTab.fails THEN <<>> ELSE videosTab.items) = <<>>,
     fetched   |-> Len(fetchLog),
     failed    |-> Cardinality(FailedIds(fetchLog)),
     wrote     |-> Len(written)]

Returned == IF Len(returned) < Len(called) THEN Append(returned, Summary) ELSE returned

\* Configurations and destination files main may find.
ConfigChoices ==
    { <<NoConfigFile, NoConfigFile>>,
      <<NoConfigFile, ConfigFile(<<ChannelTwo>>)>>,
      <<ConfigFile(<<>>), ConfigFile(<<ChannelTwo>>)>>,
      <<ConfigFile(<<ChannelOne>>), NoConfigFile>>,
      <<ConfigFile(<<ChannelOne, ChannelTwo>>), ConfigFile(<<ChannelTwo>>)>>,
      <<ConfigFile(<<ChannelTwo, ChannelOne>>), NoConfigFile>> }

InitMain ==
    /\ streamsTab = TabFails
    /\ videosTab = TabOf(<<>>)
    /\ vids = [id \in VideoIds |-> Video(MetaThrows, MetaThrows, NoResp, NoResp)]
    /\ today = Date1
    /\ indexByObject \in BOOLEAN
    /\ \E f \in InitialFiles :
          /\ fileExists = f.exists
          /\ file = f.content
    /\ shelf \in [FileNames -> {NoFile, [exists |-> TRUE, content |-> <<"n", "\n">>]}]
    /\ shelf[ChannelOne.filename] = NoFile
    /\ dirExists \in BOOLEAN
    /\ (fileExists \/ \E f \in FileNames : shelf[f].exists) => dirExists
    /\ ProcIdle
    /\ HistInit
    /\ church_name = ChannelOne.name
    /\ filename = ChannelOne.filename
    /\ configs \in ConfigChoices
    /\ mpc = "start"
    /\ channels = <<>>
    /\ chan = 0
    /\ called = <<>>
    /\ returned = <<>>
    /\ probeIn = NoProbe /\ probeOut = NoProbe

\* lines 259-260
MainStart ==
    /\ mpc = "start"
    /\ channels' = load_config(configs)
    /\ IF load_config(configs) = <<>>
       THEN mpc' = "done" /\ chan' = chan
       ELSE mpc' = "loop" /\ chan' = 1
    /\ UNCHANGED <<envVars, diskVars, procVars, histVars, probeVars, church_name,
                   filename, configs, shelf, called, returned>>

\* lines 262-263 and 177-193: process_channel is called for the next item;
\* it lists that channel's tabs and reads that channel's file
MainCall ==
    /\ mpc = "loop"
    /\ pc = "idle"
    /\ chan <= Len(channels)
    /\ LET config == channels[chan]
           all == [shelf EXCEPT ![filename] = [exists |-> fileExists, content |-> file]]
       IN  /\ church_name' = config.name
           /\ filename' = config.filename
           /\ fileExists' = all[config.filename].exists
           /\ file' = all[config.filename].content
           /\ shelf' = [all EXCEPT ![config.filename] = NoFile]
           /\ called' = Append(called, config.name)
           /\ Enter(all[config.filename].exists, all[config.filename].content)
    /\ returned' = Returned
    /\ chan' = NextChannel(chan, Len(channels))
    /\ streamsTab' \in StreamsTabs
    /\ videosTab' \in VideosTabs
    /\ vids' \in [VideoIds -> UNION {VideoStates(id) : id \in VideoIds}]
    /\ \A id \in VideoIds : vids'[id] \in VideoStates(id)
    /\ UNCHANGED <<today, indexByObject, configs, mpc, channels>>

\* the loop of line 262 is over
MainEnd ==
    /\ mpc = "loop"
    /\ pc = "idle"
    /\ chan > Len(channels)
    /\ mpc' = "done"
    /\ returned' = Returned
    /\ UNCHANGED <<envVars, diskVars, procVars, histVars, probeVars, church_name,
                   filename, configs, shelf, channels, chan, called>>

NextMain ==
    \/ MainStart \/ MainCall \/ MainEnd
    \/ ScanStreams \/ ScanVideos \/ Dedup \/ LoopStep \/ EndLoop
    \/ WriteEntry \/ CloseFile

\* the steps of main and of process_channel other than LoopStep
MainOther ==
    \/ MainStart \/ MainCall \/ MainEnd
    \/ ScanStreams \/ ScanVideos \/ Dedup \/ EndLoop \/ WriteEntry \/ CloseFile

\* LoopStep can be taken exactly when the loop of line 223 has a candidate left
LoopStepEnabled == pc = "loop" /\ idx <= Len(unique_videos)

\* The program is sequential: as long as it can take a step it takes one
\* (every call to the upstream returns, with an answer or an exception).
\* The last conjunct is WF_vars(LoopStep) with ENABLED written out.
SpecMain ==
    /\ InitMain /\ [][NextMain]_vars
    /\ WF_vars(MainOther)
    /\ ([]<>~LoopStepEnabled \/ []<><<LoopStep>>_vars)

NoConfig == \A i \in 1..Len(configs) : ~configs[i].exists

Names(mapping) == [i \in 1..Len(mapping) |-> mapping[i].name]

\* C11: when neither configuration file exists main ends at once: it calls
\* process_channel for no channel, changes no destination file and does not
\* make the data directory; and main ends short of a configured channel in
\* no other case.
C11_MissingConfigHaltsClean ==
    /\ [][NoConfig => /\ mpc' = "done"
                      /\ pc' = "idle"
                      /\ called' = <<>>
                      /\ runs' = 0
                      /\ UNCHANGED <<dirExists, fileExists, file, shelf>>]_vars
    /\ []((mpc = "done" /\ called # Names(load_config(configs))) => NoConfig)

\* main has ended without a configuration; there are destination files but
\* one of them was never read, and there is no call.
C11_Witness ==
    /\ NoConfig
    /\ mpc = "done"
    /\ fileExists
    /\ shelf[ChannelTwo.filename].exists
    /\ called = <<>>
    /\ runs = 0

\* C12: when a configuration is loaded, main calls process_channel for every
\* configured channel, in the order of the configuration, and ends; a failed
\* listing tab, an empty candidate set or failed fetches in one channel do
\* not keep the next from being called.
C12_RunCompletion ==
    /\ [](IsPrefix(called, Names(load_config(configs))))
    /\ (mpc = "loop") ~> (mpc = "done" /\ called = Names(load_config(configs)))

\* The first channel had a failed tab and only failed fetches, the second
\* was processed after it and wrote entries; main has ended.
C12_Witness ==
    /\ mpc = "done"
    /\ Len(returned) = 2
    /\ returned[1].tabFailed
    /\ returned[1].fetched >= 1
    /\ returned[1].failed = returned[1].fetched
    /\ returned[2].wrote >= 1
    /\ called = Names(channels)

----------------------------------------------------------------------------
(* The functions on their own: an input is drawn or built, the function is *)
(* applied to it.  process_channel stays idle in these specifications.     *)

Parked ==
    /\ streamsTab = TabFails
    /\ videosTab = TabOf(<<>>)
    /\ vids = [id \in VideoIds |-> Video(MetaThrows, MetaThrows, NoResp, NoResp)]
    /\ today = Date1
    /\ indexByObject = TRUE
    /\ dirExists = FALSE /\ fileExists = FALSE /\ file = <<>>
    /\ ProcIdle
    /\ HistInit
    /\ MainOff

pipelineVars == <<envVars, diskVars, procVars, histVars, mainVars>>

\* Bounds of the inputs.
MaxCodes  == 2
MaxParts  == 3
MaxPieces == 3
MaxCues   == 2

(* get_transcript_text *)

IsInjective(q) == \A i, j \in 1..Len(q) : q[i] = q[j] => i = j

\* Caption lists: every order of at most MaxCodes distinct codes.
CodeLists == {q \in SeqUpTo(Codes, MaxCodes) : IsInjective(q)}
Metas == {MetaThrows} \cup {Meta(q) : q \in CodeLists}

DocWeb     == Doc(<<Cue(<<"w", " ", "e", "b">>)>>)
DocAndroid == Doc(<<Cue(<<"a", "n">>), Cue(<<" ", "d">>)>>)
BlankDoc   == Doc(<<Cue(<<" ", "\n">>)>>)

WebResponses     == {Resp(200, DocWeb), Resp(200, BlankDoc), Resp(200, BadDoc),
                     Resp(429, BadDoc), Resp(503, BadDoc), Resp(0, BadDoc)}
AndroidResponses == {Resp(200, DocAndroid), Resp(200, BlankDoc), Resp(429, BadDoc)}

InitFetch ==
    /\ Parked
    /\ \E web \in Metas, android \in Metas, rw \in WebResponses,
          ra \in AndroidResponses, ib \in BOOLEAN :
          probeIn = [kind |-> "fetch", video |-> Video(web, android, rw, ra),
                     indexByObject |-> ib]
    /\ probeOut = NoProbe

FetchTranscript ==
    /\ probeIn.kind = "fetch"
    /\ probeOut.kind = "none"
    /\ probeOut' = [kind |-> "fetch",
                    res |-> get_transcript_text(probeIn.video, probeIn.indexByObject),
                    web |-> fetch_captions_with_client(probeIn.video.web, "WEB",
                                                       probeIn.indexByObject),
                    android |-> fetch_captions_with_client(probeIn.video.android,
                                                           "ANDROID",
                                                           probeIn.indexByObject)]
    /\ UNCHANGED <<probeIn, pipelineVars>>

NextFetch == FetchTranscript

SpecFetch == InitFetch /\ [][NextFetch]_vars

IsEnglish(code) == code = "a.en" \/ StartsWithEn(code)

\* The primary identity resolves the metadata and sees no English track, the
\* secondary resolves one, and the download of that track answers 200 with
\* text that decodes to something.
FallbackCase ==
    /\ probeIn.kind = "fetch"
    /\ probeOut.kind = "fetch"
    /\ ~probeIn.video.web.throws
    /\ \A c \in Range(probeIn.video.web.codes) : ~IsEnglish(c)
    /\ fetch_captions_with_client(probeIn.video.android, "ANDROID",
                                  probeIn.indexByObject).track # NoTrack
    /\ probeIn.video.payload["ANDROID"].status = 200
    /\ ~xml_to_text(probeIn.video.payload["ANDROID"].doc).none
    /\ xml_to_text(probeIn.video.payload["ANDROID"].doc).text # <<>>

\* C5: when the primary (WEB) identity yields no English caption track, the
\* secondary (ANDROID) identity yields one and its download answers 200 with
\* non-empty decoded text, get_transcript_text returns that track's decoded
\* text and does not fail.
C5_FallbackReturnsSecondaryTrack ==
    FallbackCase =>
        /\ probeOut.res.ok
        /\ probeOut.res.err # ErrNoCaptions
        /\ probeOut.res.track =
              fetch_captions_with_client(probeIn.video.android, "ANDROID",
                                         probeIn.indexByObject).track
        /\ probeOut.res.track.client = "ANDROID"
        /\ probeOut.res.text = xml_to_text(probeIn.video.payload["ANDROID"].doc).text
        /\ probeOut.res.steps = <<"WEB", "ANDROID", "GET">>

\* The fallback found the auto-generated track and returned its text, while
\* the download for the primary identity would have been rate limited.
C5_Witness ==
    /\ FallbackCase
    /\ probeIn.video.web.codes = <<"es">>
    /\ probeIn.video.payload["WEB"].status = 429
    /\ probeOut.res.ok
    /\ probeOut.res.track = [client |-> "ANDROID", code |-> "a.en"]
    /\ probeOut.res.text = <<"a", "n", " ", "d">>

\* The failure kind the taxonomy names for a metadata step that threw.
ErrClientResolution == "ClientResolutionError"

ProbeFetched == probeIn.kind = "fetch" /\ probeOut.kind = "fetch"

AndroidTrack ==
    fetch_captions_with_client(probeIn.video.android, "ANDROID",
                               probeIn.indexByObject).track

NoEnglish(meta) == \A c \in Range(meta.codes) : ~IsEnglish(c)

\* C14 as stated: when metadata resolution throws for the primary identity
\* (or for both) and the fetch fails for want of a track, the failure is
\* ClientResolutionError; NoCaptionsAvailable is surfaced only when
\* resolution completed and found no English track.
C14_ThrowIsClientResolutionError ==
    ProbeFetched =>
        /\ (probeIn.video.web.throws /\ ~probeOut.res.ok
               /\ "GET" \notin Range(probeOut.res.steps)) =>
              probeOut.res.err = ErrClientResolution
        /\ probeOut.res.err = ErrNoCaptions =>
              ~(probeIn.video.web.throws /\ probeIn.video.android.throws)

\* C14 amended: a metadata step that throws counts as an identity that found
\* no track: when the primary throws the secondary is tried; when no track
\* results the failure is NoCaptionsAvailable, the same kind as when
\* resolution completed without an English track; with a track from the
\* secondary the download decides.  No failure of another kind stands for
\* the throw.
C14_ThrowCountsAsNoTrack ==
    ProbeFetched =>
        /\ probeOut.res.err \in FetchErrors \cup {"none"}
        /\ probeIn.video.web.throws =>
              /\ Len(probeOut.res.steps) >= 2
              /\ probeOut.res.steps[1] = "WEB"
              /\ probeOut.res.steps[2] = "ANDROID"
        /\ (probeIn.video.web.throws /\ AndroidTrack = NoTrack) =>
              /\ ~probeOut.res.ok
              /\ probeOut.res.err = ErrNoCaptions
              /\ probeOut.res.steps = <<"WEB", "ANDROID">>
        /\ (probeIn.video.web.throws /\ AndroidTrack # NoTrack) =>
              /\ probeOut.res.steps = <<"WEB", "ANDROID", "GET">>
              /\ probeOut.res.err # ErrNoCaptions
              /\ probeOut.res.ok => probeOut.res.track = AndroidTrack
        /\ (/\ ~probeIn.video.web.throws /\ ~probeIn.video.android.throws
            /\ NoEnglish(probeIn.video.web) /\ NoEnglish(probeIn.video.android)) =>
              probeOut.res.err = ErrNoCaptions

\* The metadata step threw for both identities and the fetch failed with
\* the kind of a missing track.
C14_Witness ==
    /\ ProbeFetched
    /\ probeIn.video.web.throws
    /\ probeIn.video.android.throws
    /\ ~probeOut.res.ok
    /\ probeOut.res.err = ErrNoCaptions
    /\ probeOut.res.steps = <<"WEB", "ANDROID">>

\* The track the ladder resolves, and the response to its download.
WebTrack ==
    fetch_captions_with_client(probeIn.video.web, "WEB", probeIn.indexByObject).track

ResolvedTrack == IF WebTrack # NoTrack THEN WebTrack ELSE AndroidTrack

PayloadResponse == probeIn.video.payload[ResolvedTrack.client]

\* A track was resolved and its download was answered.
PayloadAnswered ==
    /\ ProbeFetched
    /\ ResolvedTrack # NoTrack
    /\ PayloadResponse.status # 0

\* C15: once a caption track is resolved the response to its download
\* decides the result: 200 with text that decodes to something returns that
\* text, 200 with nothing decoded (or unparsable) fails with TranscriptEmpty,
\* 429 fails with RateLimited, any other status fails with
\* UpstreamHttpError; the kinds differ from one another and from
\* NoCaptionsAvailable.
C15_PayloadOutcome ==
    PayloadAnswered =>
        LET status == PayloadResponse.status
            decoded == xml_to_text(PayloadResponse.doc)
            res == probeOut.res
        IN  /\ (status = 200 /\ ~decoded.none /\ decoded.text # <<>>) =>
                  (res.ok /\ res.text = decoded.text /\ res.err = "none")
            /\ (status = 200 /\ (decoded.none \/ decoded.text = <<>>)) =>
                  (~res.ok /\ res.err = ErrEmpty)
            /\ status = 429 => (~res.ok /\ res.err = ErrRateLimit)
            /\ status \notin {200, 429} => (~res.ok /\ res.err = ErrHttp)
            /\ res.err # ErrNoCaptions
            /\ Cardinality({ErrEmpty, ErrRateLimit, ErrHttp, ErrNoCaptions, "none"}) = 5

\* The secondary identity resolved the track and its download was rate
\* limited, while the primary's would have been answered with text.
C15_Witness ==
    /\ PayloadAnswered
    /\ ResolvedTrack.client = "ANDROID"
    /\ PayloadResponse.status = 429
    /\ probeIn.video.payload["WEB"].status = 200
    /\ probeOut.res.err = ErrRateLimit

\* The codes of a caption list that count as English for the selection.
EnglishOf(meta) == {c \in Range(meta.codes) : IsEnglish(c)}

\* What the preference order picks among the codes of a caption list.
Preferred(meta) ==
    IF "en" \in Range(meta.codes) THEN "en"
    ELSE IF "a.en" \in Range(meta.codes) THEN "a.en"
    ELSE IF "en-US" \in Range(meta.codes) THEN "en-US"
    ELSE meta.codes[CHOOSE i \in 1..Len(meta.codes) :
                       /\ StartsWithEn(meta.codes[i])
                       /\ \A j \in 1..(i - 1) : ~StartsWithEn(meta.codes[j])]

SelectsByPreference(meta, out, client) ==
    IF EnglishOf(meta) = {}
    THEN ~out.threw /\ out.track = NoTrack
    ELSE ~out.threw /\ out.track = [client |-> client, code |-> Preferred(meta)]

\* C17: for any caption list, fetch_captions_with_client selects one track
\* whenever a code is 'a.en' or starts with 'en' (by the order 'en', 'a.en',
\* 'en-US', then the first code that starts with 'en'), and none otherwise.
C17_TrackSelection ==
    ProbeFetched =>
        /\ ~probeIn.video.web.throws =>
              SelectsByPreference(probeIn.video.web, probeOut.web, "WEB")
        /\ ~probeIn.video.android.throws =>
              SelectsByPreference(probeIn.video.android, probeOut.android, "ANDROID")

(* get_existing_video_ids on a file built from entries and other text *)

SynthTitles == {TitleA, <<"r", "e", ":", " ", "h", "t", "t", "p", "s", ":", "/", "/",
                          "w", "w", "w", ".", WatchLit>> \o IdB}
SynthTexts  == {<<"z">>, MentionA}

\* Unrelated text without a watch URL; the second holds a cut-off one.
Noises == {<<"n", "o", "t", "e", "s", "\n">>,
           <<"s", "e", "e", " ", WatchLit, "A", "B", "\n">>}

HasWatchUrl(text) == \E i \in 1..Len(text) : MatchAt(text, i)

InitIds ==
    /\ Parked
    /\ probeIn = [kind |-> "ids", exists |-> FALSE, content |-> <<>>, ids |-> {},
                  texts |-> {}, noise |-> 0, parts |-> 0]
    /\ probeOut = NoProbe

SynthEntry ==
    /\ probeIn.kind = "ids"
    /\ probeIn.parts < MaxParts
    /\ \E id \in VideoIds, title \in SynthTitles, text \in SynthTexts :
          probeIn' = [probeIn EXCEPT
                         !.exists = TRUE,
                         !.content = @ \o format_sermon_entry(id, title, Date1, text,
                                                              ChurchName),
                         !.ids = @ \cup {id},
                         !.texts = @ \cup {title, text},
                         !.parts = @ + 1]
    /\ probeOut' = NoProbe
    /\ UNCHANGED pipelineVars

SynthNoise ==
    /\ probeIn.kind = "ids"
    /\ probeIn.parts < MaxParts
    /\ \E noise \in Noises :
          probeIn' = [probeIn EXCEPT
                         !.exists = TRUE,
                         !.content = @ \o noise,
                         !.noise = @ + 1,
                         !.parts = @ + 1]
    /\ probeOut' = NoProbe
    /\ UNCHANGED pipelineVars

ReadIds ==
    /\ probeIn.kind = "ids"
    /\ probeOut.kind = "none"
    /\ probeOut' = [kind |-> "ids",
                    found |-> get_existing_video_ids(probeIn.exists, probeIn.content)]
    /\ UNCHANGED <<probeIn, pipelineVars>>

NextIds == SynthEntry \/ SynthNoise \/ ReadIds

SpecIds == InitIds /\ [][NextIds]_vars

\* C7 as stated: for a file made of entries for the identifiers of S and of
\* unrelated text without a watch URL, get_existing_video_ids returns S, and
\* the empty set when there is no file.
C7_RoundTrip ==
    (probeIn.kind = "ids" /\ probeOut.kind = "ids") =>
        /\ probeOut.found = probeIn.ids
        /\ ~probeIn.exists => probeOut.found = {}

\* C7 amended: ... of entries whose titles and transcript texts hold no
\* watch URL, and of unrelated text without one, ...
C7_RoundTripCleanEntries ==
    (/\ probeIn.kind = "ids"
     /\ probeOut.kind = "ids"
     /\ \A t \in probeIn.texts : ~HasWatchUrl(t)) =>
        /\ probeOut.found = probeIn.ids
        /\ ~probeIn.exists => probeOut.found = {}

\* Two identifiers come back from a file with their entries and other text.
C7_Witness ==
    /\ probeIn.kind = "ids"
    /\ probeOut.kind = "ids"
    /\ \A t \in probeIn.texts : ~HasWatchUrl(t)
    /\ probeIn.noise >= 1
    /\ Cardinality(probeIn.ids) = 2
    /\ probeOut.found = probeIn.ids

(* xml_to_text on caption markup built cue by cue *)

\* Pieces of character data: plain characters, an XML character reference,
\* a raw &nbsp; reference, and entities written the way the upstream escapes
\* them (&amp;nbsp; stands for the text &nbsp;).
Pieces ==
    { <<"a">>, <<" ">>, <<"\n">>,
      <<"b", EntNbsp, "c">>,
      <<"I", EntApos, "m">>,
      <<EntAmp, "n", "b", "s", "p", ";">>,
      <<EntAmp, "#", "3", "9", ";">>,
      <<EntAmp, "q", "u", "o", "t", ";">>,
      <<EntAmp, "a", "m", "p", ";">>,
      <<"q", "u", "o", "t", ";">> }

InitXml ==
    /\ Parked
    /\ probeIn = [kind |-> "xml", doc |-> Doc(<<>>), pieces |-> 0]
    /\ probeOut = NoProbe

\* a child element of the root is opened
XmlNewChild ==
    /\ probeIn.kind = "xml"
    /\ probeIn.doc.wellFormed
    /\ Len(probeIn.doc.children) < MaxCues
    /\ \E tag \in {"text", "p"} :
          probeIn' = [probeIn EXCEPT
                         !.doc.children = Append(@, [tag |-> tag, markup |-> <<>>])]
    /\ probeOut' = NoProbe
    /\ UNCHANGED pipelineVars

\* character data is added to the last child
XmlAddPiece ==
    /\ probeIn.kind = "xml"
    /\ probeIn.doc.wellFormed
    /\ probeIn.doc.children # <<>>
    /\ probeIn.pieces < MaxPieces
    /\ \E piece \in Pieces :
          probeIn' = [probeIn EXCEPT
                         !.doc.children[Len(probeIn.doc.children)].markup = @ \o piece,
                         !.pieces = @ + 1]
    /\ probeOut' = NoProbe
    /\ UNCHANGED pipelineVars

\* the payload is cut off, or is not XML at all
XmlBreak ==
    /\ probeIn.kind = "xml"
    /\ probeIn.doc.wellFormed
    /\ probeIn' = [probeIn EXCEPT !.doc.wellFormed = FALSE]
    /\ probeOut' = NoProbe
    /\ UNCHANGED pipelineVars

XmlToText ==
    /\ probeIn.kind = "xml"
    /\ probeOut.kind = "none"
    /\ probeOut' = [kind |-> "xml", res |-> xml_to_text(probeIn.doc)]
    /\ UNCHANGED <<probeIn, pipelineVars>>

NextXml == XmlNewChild \/ XmlAddPiece \/ XmlBreak \/ XmlToText

SpecXml == InitXml /\ [][NextXml]_vars

\* What the claim expects, written without the operators of the model.

\* every entity replaced by its character, in one pass from the left
RECURSIVE OnePassDecode(_)
OnePassDecode(text) ==
    IF text = <<>> THEN <<>>
    ELSE IF OccursAt(text, PatNbsp, 1)
         THEN <<" ">> \o OnePassDecode(SubSeq(text, 7, Len(text)))
    ELSE IF OccursAt(text, PatApos, 1)
         THEN <<"'">> \o OnePassDecode(SubSeq(text, 6, Len(text)))
    ELSE IF OccursAt(text, PatQuot, 1)
         THEN <<"\"">> \o OnePassDecode(SubSeq(text, 7, Len(text)))
    ELSE IF OccursAt(text, PatAmp, 1)
         THEN <<"&">> \o OnePassDecode(SubSeq(text, 6, Len(text)))
    ELSE <<Head(text)>> \o OnePassDecode(Tail(text))

\* every run of whitespace inside the text becomes one space, the runs at
\* its ends go
RECURSIVE Squeeze(_)
Squeeze(text) ==
    IF text = <<>> THEN <<>>
    ELSE IF Head(text) \in Whitespace
         THEN IF Tail(text) = <<>> \/ Head(Tail(text)) \in Whitespace
              THEN Squeeze(Tail(text))
              ELSE <<" ">> \o Squeeze(Tail(text))
         ELSE <<Head(text)>> \o Squeeze(Tail(text))

Normalized(text) ==
    LET q == Squeeze(text)
    IN  IF q # <<>> /\ Head(q) = " " THEN Tail(q) ELSE q

\* the entity references of the markup, each as its character
MarkupChar(t) ==
    CASE t = EntAmp  -> "&"
      [] t = EntApos -> "'"
      [] t = EntQuot -> "\""
      [] t = EntNbsp -> " "
      [] OTHER       -> t

RECURSIVE JoinCues(_)
JoinCues(cues) ==
    IF cues = <<>> THEN <<>>
    ELSE IF Head(cues) = <<>> THEN JoinCues(Tail(cues))
    ELSE IF JoinCues(Tail(cues)) = <<>> THEN Head(cues)
    ELSE Head(cues) \o <<" ">> \o JoinCues(Tail(cues))

TextChildren(doc) == SelectSeq(doc.children, LAMBDA c : c.tag = "text")

\* the cue texts when the entities are those of the markup
ExpectedFromMarkup(doc) ==
    LET cs == TextChildren(doc)
    IN  JoinCues([i \in 1..Len(cs) |->
                    Normalized([j \in 1..Len(cs[i].markup) |->
                                   MarkupChar(cs[i].markup[j])])])

\* the cue texts when the entities are those of the parsed character data
ExpectedFromParsed(doc) ==
    LET cs == TextChildren(doc)
    IN  JoinCues([i \in 1..Len(cs) |->
                    Normalized(OnePassDecode(ParseCharData(cs[i].markup)))])

SingleLine(text) ==
    /\ \A i \in 1..Len(text) : text[i] \notin {"\n", "\t"}
    /\ text # <<>> => (Head(text) # " " /\ text[Len(text)] # " ")
    /\ \A i \in 1..(Len(text) - 1) : ~(text[i] = " " /\ text[i + 1] = " ")

HasRawNbsp(doc) ==
    \E i \in 1..Len(doc.children) : EntNbsp \in Range(doc.children[i].markup)

\* C8 as stated: for any caption markup whose cues hold the entities &amp;,
\* &#39;, &quot;, &nbsp; and irregular whitespace, the output has each entity
\* replaced by its character, is a single line without doubled spaces, and
\* is the non-empty normalized cue texts joined by single spaces.
C8_DecodeMarkup ==
    (probeIn.kind = "xml" /\ probeOut.kind = "xml" /\ probeIn.doc.wellFormed) =>
        /\ ~probeOut.res.none
        /\ probeOut.res.text = ExpectedFromMarkup(probeIn.doc)
        /\ SingleLine(probeOut.res.text)

\* C8 amended: for any caption markup that the XML parser accepts (it rejects
\* a raw &nbsp; reference, and xml_to_text then returns None), whose parsed
\* cue texts hold the entities, the output has each entity replaced by its
\* character, is a single line without doubled spaces, and is the non-empty
\* normalized cue texts joined by single spaces.
C8_DecodeParsedText ==
    (probeIn.kind = "xml" /\ probeOut.kind = "xml") =>
        IF probeIn.doc.wellFormed /\ ~HasRawNbsp(probeIn.doc)
        THEN /\ ~probeOut.res.none
             /\ probeOut.res.text = ExpectedFromParsed(probeIn.doc)
             /\ SingleLine(probeOut.res.text)
        ELSE probeOut.res.none

\* Two cues with escaped entities and irregular whitespace were decoded.
C8_Witness ==
    /\ probeIn.kind = "xml"
    /\ probeOut.kind = "xml"
    /\ Len(probeIn.doc.children) = 2
    /\ probeIn.doc.children[1].markup = <<"a", EntAmp, "n", "b", "s", "p", ";">>
    /\ probeIn.doc.children[2].markup = <<EntAmp, "q", "u", "o", "t", ";">>
    /\ probeOut.res.text = <<"a", " ", "\"">>

====
